---- MODULE Spec2Model ----
(***************************************************************************)
(* Conversions between KeyAttributesProto (wire) and KeyAttributes         *)
(* (domain) of src/operations_protobuf/convert_key_attributes.rs.          *)
(*                                                                         *)
(* The four TryFrom implementations are pure functions; each is an         *)
(* operator returning a record [status, value, log] where log is the       *)
(* sequence of error!() records the call emits.  The state machine is a    *)
(* caller that applies one conversion to a bounded input, and may feed a   *)
(* successful result to the opposite conversion.                           *)
(***************************************************************************)
EXTENDS Integers, Sequences, FiniteSets, TLC

VARIABLES call, arg, ret, log, orig

vars == <<call, arg, ret, log, orig>>

(* ---------------- bounds ---------------- *)

\* wire enum fields are i32; the codes tried are -1 .. MaxCode
MaxCode == 3
\* key_size values tried are 0 .. MaxKeySize
MaxKeySize == 1

WireCodes == (0 - 1)..MaxCode
KeySizes == 0..MaxKeySize

(* ---------------- Option ---------------- *)

None == [some |-> FALSE]
Some(x) == [some |-> TRUE, val |-> x]

(* ---------------- enums: variant name -> integer code ---------------- *)

\* crate::operations::key_attributes::KeyType (derives FromPrimitive)
KeyTypeCode == [HmacKey |-> 0, RsaPublicKey |-> 1, RsaKeypair |-> 2]
\* crate::operations::key_attributes::EccCurve: no variant has code 0
EccCurveCode == [Secp160k1 |-> 1, Secp160r1 |-> 2]
\* crate::operations::key_attributes::SignAlgorithm
SignAlgorithmCode == [RsaPkcs1v15Sign |-> 0, RsaPss |-> 1]
\* crate::operations::key_attributes::HashAlgorithm: no variant has code 0
HashAlgorithmCode == [Sha1 |-> 1, Sha256 |-> 2]
\* generated_ops::key_attributes::EccCurve (wire enum, NoEccCurve is code 0)
EccCurveProtoCode == [NoEccCurve |-> 0, Secp160k1 |-> 1, Secp160r1 |-> 2]
\* generated_ops::key_attributes::HashAlgorithm (wire enum)
HashAlgorithmProtoCode == [NoHashAlgorithm |-> 0, Sha1 |-> 1, Sha256 |-> 2]

Codes(codeMap) == {codeMap[n] : n \in DOMAIN codeMap}

\* num::FromPrimitive::from_i32 of a derived enum: the variant whose
\* discriminant is the code, or None
from_i32(codeMap, code) ==
    IF \E n \in DOMAIN codeMap : codeMap[n] = code
    THEN Some(CHOOSE n \in DOMAIN codeMap : codeMap[n] = code)
    ELSE None

\* `variant as i32`
as_i32(codeMap, variant) == codeMap[variant]

\* generated getter KeyAttributesProto::ecc_curve(): the enum value of the
\* field, or the default (the zero variant) if the field holds an invalid code
ecc_curve_getter(attrs) ==
    LET e == from_i32(EccCurveProtoCode, attrs.ecc_curve)
    IN  IF e.some THEN e.val ELSE "NoEccCurve"

\* generated getter Sign::hash_algorithm(), same rule
hash_algorithm_getter(sign) ==
    LET h == from_i32(HashAlgorithmProtoCode, sign.hash_algorithm)
    IN  IF h.some THEN h.val ELSE "NoHashAlgorithm"

(* ---------------- value domains ---------------- *)

Flags == {"permit_export", "permit_encrypt", "permit_decrypt",
          "permit_sign", "permit_verify", "permit_derive"}

\* key_attributes::Sign sub-message and the other members of the oneof
SignProtoValues == [kind : {"Sign"}, sign_algorithm : WireCodes, hash_algorithm : WireCodes]
AlgorithmProtoValues == SignProtoValues \cup {[kind |-> "Other"]}

KeyAttributesProtoValues ==
    [key_type : WireCodes, ecc_curve : WireCodes,
     algorithm_proto : {None} \cup {Some(a) : a \in AlgorithmProtoValues},
     key_size : KeySizes,
     permit_export : BOOLEAN, permit_encrypt : BOOLEAN, permit_decrypt : BOOLEAN,
     permit_sign : BOOLEAN, permit_verify : BOOLEAN, permit_derive : BOOLEAN]

\* Algorithm::sign(sign, hash): an Algorithm whose inner() is Sign(sign, hash)
Algorithm_sign(s, h) == [kind |-> "Sign", sign |-> s, hash |-> h]

OptionOf(S) == {None} \cup {Some(x) : x \in S}

AlgorithmValues ==
    {Algorithm_sign(s, h) : s \in DOMAIN SignAlgorithmCode,
                            h \in OptionOf(DOMAIN HashAlgorithmCode)}
    \cup {[kind |-> "Other"]}

KeyAttributesValues ==
    [key_type : DOMAIN KeyTypeCode, ecc_curve : OptionOf(DOMAIN EccCurveCode),
     algorithm : AlgorithmValues,
     key_size : KeySizes,
     permit_export : BOOLEAN, permit_encrypt : BOOLEAN, permit_decrypt : BOOLEAN,
     permit_sign : BOOLEAN, permit_verify : BOOLEAN, permit_derive : BOOLEAN]

(* ---------------- Result ---------------- *)

NoValue == [kind |-> "NoValue"]
Ok(v) == [status |-> "Ok", value |-> v, log |-> <<>>]
\* ok_or_else(|| { error!(msg); status })
ErrLogged(status, msg) == [status |-> status, value |-> NoValue, log |-> <<msg>>]
\* Err(status) with no error!() call
Err(status) == [status |-> status, value |-> NoValue, log |-> <<>>]

(* ---------------- wire -> domain ---------------- *)

\* mutant: an unknown sign_algorithm code is reported as not supported
Algorithm_try_from_mut_sign(alg) ==
    IF alg.kind = "Sign"
    THEN LET s == from_i32(SignAlgorithmCode, alg.sign_algorithm)
         IN  IF ~s.some
             THEN Err("PsaErrorNotSupported")
             ELSE IF hash_algorithm_getter(alg) = "NoHashAlgorithm"
                  THEN Ok(Algorithm_sign(s.val, None))
                  ELSE LET h == from_i32(HashAlgorithmCode, alg.hash_algorithm)
                       IN  IF ~h.some
                           THEN ErrLogged("InvalidEncoding", "Failed to convert hash algorithm")
                           ELSE Ok(Algorithm_sign(s.val, Some(h.val)))
    ELSE Err("PsaErrorNotSupported")

\* mutant: a variant other than Sign is reported as an invalid encoding
Algorithm_try_from_mut_variant(alg) ==
    IF alg.kind = "Sign"
    THEN LET s == from_i32(SignAlgorithmCode, alg.sign_algorithm)
         IN  IF ~s.some
             THEN ErrLogged("InvalidEncoding", "Failed to convert algorithm")
             ELSE IF hash_algorithm_getter(alg) = "NoHashAlgorithm"
                  THEN Ok(Algorithm_sign(s.val, None))
                  ELSE LET h == from_i32(HashAlgorithmCode, alg.hash_algorithm)
                       IN  IF ~h.some
                           THEN ErrLogged("InvalidEncoding", "Failed to convert hash algorithm")
                           ELSE Ok(Algorithm_sign(s.val, Some(h.val)))
    ELSE Err("InvalidEncoding")

\* mutant: the unknown sign_algorithm failure is returned without error!()
Algorithm_try_from_mut_nolog(alg) ==
    IF alg.kind = "Sign"
    THEN LET s == from_i32(SignAlgorithmCode, alg.sign_algorithm)
         IN  IF ~s.some
             THEN Err("InvalidEncoding")
             ELSE IF hash_algorithm_getter(alg) = "NoHashAlgorithm"
                  THEN Ok(Algorithm_sign(s.val, None))
                  ELSE LET h == from_i32(HashAlgorithmCode, alg.hash_algorithm)
                       IN  IF ~h.some
                           THEN ErrLogged("InvalidEncoding", "Failed to convert hash algorithm")
                           ELSE Ok(Algorithm_sign(s.val, Some(h.val)))
    ELSE Err("PsaErrorNotSupported")

\* impl TryFrom<AlgorithmProto> for Algorithm.  The arguments of
\* Algorithm::sign are evaluated left to right: sign_algorithm, then hash.
Algorithm_try_from(alg) ==
    IF alg.kind = "Sign"
    THEN LET s == from_i32(SignAlgorithmCode, alg.sign_algorithm)
         IN  IF ~s.some
             THEN ErrLogged("InvalidEncoding", "Failed to convert algorithm")
             ELSE IF hash_algorithm_getter(alg) = "NoHashAlgorithm"
                  THEN Ok(Algorithm_sign(s.val, None))
                  ELSE LET h == from_i32(HashAlgorithmCode, alg.hash_algorithm)
                       IN  IF ~h.some
                           THEN ErrLogged("InvalidEncoding", "Failed to convert hash algorithm")
                           ELSE Ok(Algorithm_sign(s.val, Some(h.val)))
    ELSE Err("PsaErrorNotSupported")

\* let key_type = FromPrimitive::from_i32(attrs.key_type).ok_or_else(..)?
decode_key_type(attrs) ==
    LET k == from_i32(KeyTypeCode, attrs.key_type)
    IN  IF k.some THEN Ok(k.val)
        ELSE ErrLogged("InvalidEncoding", "Failed to convert key type")

\* let ecc_curve = match attrs.ecc_curve() { NoEccCurve => None, _ => Some(..?) }
decode_ecc_curve(attrs) ==
    IF ecc_curve_getter(attrs) = "NoEccCurve"
    THEN Ok(None)
    ELSE LET c == from_i32(EccCurveCode, attrs.ecc_curve)
         IN  IF c.some THEN Ok(Some(c.val))
             ELSE ErrLogged("InvalidEncoding", "Failed to convert ecc curve")

\* mutant: an absent algorithm sub-message is reported as not supported
decode_algorithm_mut_absent(attrs) ==
    IF ~attrs.algorithm_proto.some
    THEN ErrLogged("PsaErrorNotSupported", "Algorithm was empty")
    ELSE Algorithm_try_from(attrs.algorithm_proto.val)

\* let algorithm = attrs.algorithm_proto.ok_or_else(..)?.try_into()?
decode_algorithm(attrs) ==
    IF ~attrs.algorithm_proto.some
    THEN ErrLogged("InvalidEncoding", "Algorithm was empty")
    ELSE Algorithm_try_from(attrs.algorithm_proto.val)

\* mutant: permit_export is filled from permit_encrypt
assemble_KeyAttributes_mut_flag(attrs, key_type, ecc_curve, algorithm) ==
    [key_type |-> key_type, ecc_curve |-> ecc_curve, algorithm |-> algorithm,
     key_size |-> attrs.key_size,
     permit_export |-> attrs.permit_encrypt, permit_encrypt |-> attrs.permit_encrypt,
     permit_decrypt |-> attrs.permit_decrypt, permit_sign |-> attrs.permit_sign,
     permit_verify |-> attrs.permit_verify, permit_derive |-> attrs.permit_derive]

\* Ok(KeyAttributes { key_type, ecc_curve, algorithm, key_size: attrs.key_size, .. })
assemble_KeyAttributes(attrs, key_type, ecc_curve, algorithm) ==
    [key_type |-> key_type, ecc_curve |-> ecc_curve, algorithm |-> algorithm,
     key_size |-> attrs.key_size,
     permit_export |-> attrs.permit_export, permit_encrypt |-> attrs.permit_encrypt,
     permit_decrypt |-> attrs.permit_decrypt, permit_sign |-> attrs.permit_sign,
     permit_verify |-> attrs.permit_verify, permit_derive |-> attrs.permit_derive]

\* mutant: the algorithm is converted before key_type and ecc_curve
KeyAttributes_try_from_mut_order(attrs) ==
    LET al == decode_algorithm(attrs)
    IN  IF al.status # "Ok" THEN al
        ELSE LET kt == decode_key_type(attrs)
             IN  IF kt.status # "Ok" THEN kt
                 ELSE LET ec == decode_ecc_curve(attrs)
                      IN  IF ec.status # "Ok" THEN ec
                          ELSE Ok(assemble_KeyAttributes(attrs, kt.value, ec.value, al.value))

\* impl TryFrom<KeyAttributesProto> for KeyAttributes: each `?` returns the
\* first error, in the order key_type, ecc_curve, algorithm
KeyAttributes_try_from(attrs) ==
    LET kt == decode_key_type(attrs)
    IN  IF kt.status # "Ok" THEN kt
        ELSE LET ec == decode_ecc_curve(attrs)
             IN  IF ec.status # "Ok" THEN ec
                 ELSE LET al == decode_algorithm(attrs)
                      IN  IF al.status # "Ok" THEN al
                          ELSE Ok(assemble_KeyAttributes(attrs, kt.value, ec.value, al.value))

(* ---------------- domain -> wire ---------------- *)

\* mutant: a present curve is written as the sentinel
encode_ecc_curve_mut_some(ecc_curve) ==
    IF ~ecc_curve.some THEN 0 ELSE 0

\* mutant: an absent curve is written as code 1
encode_ecc_curve_mut_none(ecc_curve) ==
    IF ~ecc_curve.some THEN 1 ELSE as_i32(EccCurveCode, ecc_curve.val)

\* ecc_curve: match attrs.ecc_curve { None => 0, Some(curve) => curve as i32 }
encode_ecc_curve(ecc_curve) ==
    IF ~ecc_curve.some THEN 0 ELSE as_i32(EccCurveCode, ecc_curve.val)

\* hash_algorithm: match hash { None => 0, Some(hash) => *hash as i32 }
encode_hash_algorithm(hash) ==
    IF ~hash.some THEN 0 ELSE as_i32(HashAlgorithmCode, hash.val)

\* impl TryFrom<Algorithm> for AlgorithmProto
AlgorithmProto_try_from(alg) ==
    IF alg.kind = "Sign"
    THEN Ok([kind |-> "Sign",
             sign_algorithm |-> as_i32(SignAlgorithmCode, alg.sign),
             hash_algorithm |-> encode_hash_algorithm(alg.hash)])
    ELSE Err("PsaErrorNotSupported")

\* impl TryFrom<KeyAttributes> for KeyAttributesProto
KeyAttributesProto_try_from(attrs) ==
    LET al == AlgorithmProto_try_from(attrs.algorithm)
    IN  IF al.status # "Ok" THEN al
        ELSE Ok([key_type |-> as_i32(KeyTypeCode, attrs.key_type),
                 ecc_curve |-> encode_ecc_curve(attrs.ecc_curve),
                 algorithm_proto |-> Some(al.value),
                 key_size |-> attrs.key_size,
                 permit_export |-> attrs.permit_export,
                 permit_encrypt |-> attrs.permit_encrypt,
                 permit_decrypt |-> attrs.permit_decrypt,
                 permit_sign |-> attrs.permit_sign,
                 permit_verify |-> attrs.permit_verify,
                 permit_derive |-> attrs.permit_derive])

\* the two conversions under the names the specification uses
decode(w) == KeyAttributes_try_from(w)
encode(v) == KeyAttributesProto_try_from(v)

(* ---------------- the caller ---------------- *)

Init ==
    /\ call = "none"
    /\ arg = NoValue
    /\ ret = [status |-> "Ok", value |-> NoValue]
    /\ log = <<>>
    /\ orig = NoValue

Apply(name, r, input, from) ==
    /\ call' = name
    /\ arg' = input
    /\ ret' = [status |-> r.status, value |-> r.value]
    /\ log' = r.log
    /\ orig' = from

\* key_attrs_proto.try_into() on a wire value
CallDecode ==
    /\ call = "none"
    /\ \E w \in KeyAttributesProtoValues : Apply("decode", decode(w), w, NoValue)

\* key_attrs.try_into() on a domain value
CallEncode ==
    /\ call = "none"
    /\ \E v \in KeyAttributesValues : Apply("encode", encode(v), v, NoValue)

\* decode applied to the wire value the last encode returned
CallDecodeOfEncoded ==
    /\ call = "encode"
    /\ ret.status = "Ok"
    /\ Apply("decode_encoded", decode(ret.value), ret.value, arg)

\* encode applied to the domain value the last decode returned
CallEncodeOfDecoded ==
    /\ call = "decode"
    /\ ret.status = "Ok"
    /\ Apply("encode_decoded", encode(ret.value), ret.value, arg)

Next ==
    \/ CallDecode
    \/ CallEncode
    \/ CallDecodeOfEncoded
    \/ CallEncodeOfDecoded

Spec == Init /\ [][Next]_vars

IsDecode == call \in {"decode", "decode_encoded"}
IsEncode == call \in {"encode", "encode_decoded"}

TypeOK ==
    /\ call \in {"none", "decode", "encode", "decode_encoded", "encode_decoded"}
    /\ ret.status \in {"Ok", "InvalidEncoding", "PsaErrorNotSupported"}
    /\ IsDecode => arg \in KeyAttributesProtoValues
    /\ IsEncode => arg \in KeyAttributesValues
    /\ (IsDecode /\ ret.status = "Ok") => ret.value \in KeyAttributesValues
    /\ (IsEncode /\ ret.status = "Ok") => ret.value \in KeyAttributesProtoValues
    /\ ret.status # "Ok" => ret.value = NoValue

(* ---------------- properties ---------------- *)

KnownKeyType(w) == w.key_type \in Codes(KeyTypeCode)
\* the wire ecc_curve code is the sentinel or the code of a curve
KnownEccCurve(w) == w.ecc_curve \in {0} \cup Codes(EccCurveCode)
HasSign(w) == w.algorithm_proto.some /\ w.algorithm_proto.val.kind = "Sign"
HasOther(w) == w.algorithm_proto.some /\ w.algorithm_proto.val.kind # "Sign"
KnownSignAlgorithm(w) == w.algorithm_proto.val.sign_algorithm \in Codes(SignAlgorithmCode)
KnownHashAlgorithm(w) == w.algorithm_proto.val.hash_algorithm \in {0} \cup Codes(HashAlgorithmCode)

\* C1: for every KeyAttributes v whose algorithm is Sign, encode(v) succeeds
\* and decode(encode(v)) succeeds and equals v field for field.
C1_RoundTrip ==
    /\ (call = "encode" /\ arg.algorithm.kind = "Sign") => ret.status = "Ok"
    /\ call = "decode_encoded" => (ret.status = "Ok" /\ ret.value = orig)

C1_Witness ==
    /\ call = "decode_encoded"
    /\ orig.ecc_curve.some
    /\ orig.algorithm.hash.some
    /\ ret.status = "Ok"
    /\ ret.value = orig

\* C2: decode on a wire value whose ecc_curve code, or whose Sign
\* hash_algorithm code, is non-zero and matches no known variant returns
\* InvalidEncoding; in every successful decode ecc_curve is None exactly when
\* the wire code is 0, and hash_algorithm is None exactly when the wire code
\* is 0.
C2_UnknownOptionalCodeRejected ==
    IsDecode =>
        /\ ~KnownEccCurve(arg) => ret.status = "InvalidEncoding"
        /\ (HasSign(arg) /\ ~KnownHashAlgorithm(arg)) => ret.status = "InvalidEncoding"
        /\ ret.status = "Ok" =>
              /\ (ret.value.ecc_curve = None) <=> (arg.ecc_curve = 0)
              /\ (ret.value.algorithm.hash = None)
                    <=> (arg.algorithm_proto.val.hash_algorithm = 0)

\* C3: decode on a wire value whose key_type code matches no key type returns
\* InvalidEncoding whatever the other fields hold; decode on a wire value with
\* a valid key_type, a valid ecc_curve and a Sign sub-message whose
\* sign_algorithm code matches no signing algorithm returns InvalidEncoding.
C3_UnknownRequiredCodeRejected ==
    IsDecode =>
        /\ ~KnownKeyType(arg) => (ret.status = "InvalidEncoding" /\ ret.value = NoValue)
        /\ (KnownKeyType(arg) /\ KnownEccCurve(arg) /\ HasSign(arg)
               /\ ~KnownSignAlgorithm(arg))
              => (ret.status = "InvalidEncoding" /\ ret.value = NoValue)

C3_Witness ==
    /\ call = "decode"
    /\ KnownKeyType(arg)
    /\ KnownEccCurve(arg)
    /\ HasSign(arg)
    /\ ~KnownSignAlgorithm(arg)
    /\ KnownHashAlgorithm(arg)
    /\ ret.status = "InvalidEncoding"

\* C4 as stated: decode on any wire value whose algorithm sub-message is
\* present and is not Sign returns NotSupported, and encode on any
\* KeyAttributes whose algorithm is not Sign returns NotSupported; no value is
\* produced.
C4_Original ==
    /\ (IsDecode /\ HasOther(arg))
          => (ret.status = "PsaErrorNotSupported" /\ ret.value = NoValue)
    /\ (IsEncode /\ arg.algorithm.kind # "Sign")
          => (ret.status = "PsaErrorNotSupported" /\ ret.value = NoValue)

\* C4 amended: decode on a wire value whose key_type code is known, whose
\* ecc_curve code is 0 or a known curve, and whose algorithm sub-message is
\* present and is not Sign returns NotSupported; encode on any KeyAttributes
\* whose algorithm is not Sign returns NotSupported; no value is produced.
C4_UnsupportedVariantRejected ==
    /\ (IsDecode /\ KnownKeyType(arg) /\ KnownEccCurve(arg) /\ HasOther(arg))
          => (ret.status = "PsaErrorNotSupported" /\ ret.value = NoValue)
    /\ (IsEncode /\ arg.algorithm.kind # "Sign")
          => (ret.status = "PsaErrorNotSupported" /\ ret.value = NoValue)

C4_Witness ==
    /\ call = "decode"
    /\ KnownKeyType(arg)
    /\ KnownEccCurve(arg)
    /\ HasOther(arg)
    /\ ret.status = "PsaErrorNotSupported"

\* C5: decode on any wire value whose algorithm sub-message is absent returns
\* InvalidEncoding, never NotSupported and never a KeyAttributes value, for
\* every key_type, ecc_curve, key_size and permission flags.
C5_MissingAlgorithmRejected ==
    (IsDecode /\ ~arg.algorithm_proto.some)
        => (ret.status = "InvalidEncoding" /\ ret.value = NoValue)

C5_Witness ==
    /\ call = "decode"
    /\ KnownKeyType(arg)
    /\ KnownEccCurve(arg)
    /\ ~arg.algorithm_proto.some
    /\ ret.status = "InvalidEncoding"
    /\ log = <<"Algorithm was empty">>

\* C6: encode writes ecc_curve = None and hash_algorithm = None as code 0 and
\* Some(x) as the code of x; decode reads code 0 in either field as None
\* without failing on that field; a None in either field survives encode
\* followed by decode.
C6_SentinelSymmetry ==
    /\ (IsEncode /\ ret.status = "Ok") =>
          /\ ret.value.ecc_curve =
                (IF arg.ecc_curve.some THEN EccCurveCode[arg.ecc_curve.val] ELSE 0)
          /\ ret.value.algorithm_proto.val.hash_algorithm =
                (IF arg.algorithm.hash.some
                 THEN HashAlgorithmCode[arg.algorithm.hash.val] ELSE 0)
    /\ (IsDecode /\ arg.ecc_curve = 0) =>
          /\ log # <<"Failed to convert ecc curve">>
          /\ ret.status = "Ok" => ret.value.ecc_curve = None
    /\ (IsDecode /\ HasSign(arg) /\ arg.algorithm_proto.val.hash_algorithm = 0) =>
          /\ log # <<"Failed to convert hash algorithm">>
          /\ ret.status = "Ok" => ret.value.algorithm.hash = None
    /\ call = "decode_encoded" =>
          /\ ret.status = "Ok"
          /\ orig.ecc_curve = None => ret.value.ecc_curve = None
          /\ orig.algorithm.hash = None => ret.value.algorithm.hash = None

C6_Witness ==
    /\ call = "decode_encoded"
    /\ orig.ecc_curve = None
    /\ orig.algorithm.hash = None
    /\ arg.ecc_curve = 0
    /\ arg.algorithm_proto.val.hash_algorithm = 0
    /\ ret.status = "Ok"
    /\ ret.value.ecc_curve = None
    /\ ret.value.algorithm.hash = None

\* C7: whenever decode or encode succeeds, key_size and each of the six
\* permission flags of the result equal those of the input, each flag
\* independently; no value of key_size or of a flag changes whether the
\* conversion succeeds or which error it returns.
C7_PassThrough ==
    /\ (call # "none" /\ ret.status = "Ok") =>
          /\ ret.value.key_size = arg.key_size
          /\ \A f \in Flags : ret.value[f] = arg[f]
    /\ IsDecode =>
          /\ \A f \in Flags : decode([arg EXCEPT ![f] = ~arg[f]]).status = ret.status
          /\ \A k \in KeySizes : decode([arg EXCEPT !.key_size = k]).status = ret.status
    /\ IsEncode =>
          /\ \A f \in Flags : encode([arg EXCEPT ![f] = ~arg[f]]).status = ret.status
          /\ \A k \in KeySizes : encode([arg EXCEPT !.key_size = k]).status = ret.status

C7_Witness ==
    /\ call = "decode"
    /\ ret.status = "Ok"
    /\ arg.key_size > 0
    /\ arg.permit_export
    /\ ~arg.permit_encrypt
    /\ ret.value.permit_export
    /\ ~ret.value.permit_encrypt
    /\ ret.value.key_size = arg.key_size

\* C8: for every wire value w on which decode succeeds, encode(decode(w))
\* succeeds and reproduces w exactly.
C8_WireRoundTrip ==
    call = "encode_decoded" => (ret.status = "Ok" /\ ret.value = orig)

\* C9 as stated: every decode or encode call that returns an error emits at
\* least one diagnostic record and every call that succeeds emits none.
C9_Original ==
    call # "none" =>
        /\ ret.status # "Ok" => Len(log) >= 1
        /\ ret.status = "Ok" => log = <<>>

\* C9 amended: every call that returns InvalidEncoding emits exactly one
\* diagnostic record; every call that returns NotSupported and every call
\* that succeeds emits none.
C9_DiagnosticOnInvalidEncoding ==
    call # "none" =>
        /\ ret.status = "InvalidEncoding" => Len(log) = 1
        /\ ret.status \in {"Ok", "PsaErrorNotSupported"} => log = <<>>

C9_Witness ==
    /\ call = "decode"
    /\ KnownKeyType(arg)
    /\ HasSign(arg)
    /\ ~KnownSignAlgorithm(arg)
    /\ ret.status = "InvalidEncoding"
    /\ Len(log) = 1

\* the checks of decode in the order C10 gives; a check on an optional field
\* fails when the generated getter yields a variant other than the sentinel
\* and the code is no variant of the domain enum
EccCurveCheckFails(w) ==
    /\ w.ecc_curve \in Codes(EccCurveProtoCode) \ {0}
    /\ w.ecc_curve \notin Codes(EccCurveCode)
HashAlgorithmCheckFails(w) ==
    /\ w.algorithm_proto.val.hash_algorithm \in Codes(HashAlgorithmProtoCode) \ {0}
    /\ w.algorithm_proto.val.hash_algorithm \notin Codes(HashAlgorithmCode)

FirstFailure(w) ==
    IF ~KnownKeyType(w) THEN "key_type"
    ELSE IF EccCurveCheckFails(w) THEN "ecc_curve"
    ELSE IF ~w.algorithm_proto.some THEN "presence"
    ELSE IF w.algorithm_proto.val.kind # "Sign" THEN "variant"
    ELSE IF ~KnownSignAlgorithm(w) THEN "sign_algorithm"
    ELSE IF HashAlgorithmCheckFails(w) THEN "hash_algorithm"
    ELSE "none"

ExpectedStatus ==
    [key_type |-> "InvalidEncoding", ecc_curve |-> "InvalidEncoding",
     presence |-> "InvalidEncoding", variant |-> "PsaErrorNotSupported",
     sign_algorithm |-> "InvalidEncoding", hash_algorithm |-> "InvalidEncoding",
     none |-> "Ok"]

ExpectedLog ==
    [key_type |-> <<"Failed to convert key type">>,
     ecc_curve |-> <<"Failed to convert ecc curve">>,
     presence |-> <<"Algorithm was empty">>,
     variant |-> <<>>,
     sign_algorithm |-> <<"Failed to convert algorithm">>,
     hash_algorithm |-> <<"Failed to convert hash algorithm">>,
     none |-> <<>>]

====
